---------------------------- MODULE Spec2Model ----------------------------
(***************************************************************************)
(* Model of the dataset readers of src/dataset.py (Cars3D, Cub, Pascal3D,  *)
(* CelebA, Beards2Glasses, AFHQ).  Each reader's read() is a small state   *)
(* machine over the raw storage it is given; the record it returns is rec. *)
(*                                                                         *)
(* Arrays and Python lists are functions over 0..n-1, so that the indices  *)
(* of the model are the indices of the source.                             *)
(***************************************************************************)
EXTENDS Integers, Sequences, FiniteSets, TLC

VARIABLES
    self,        \* the reader object: dataset name and parsed options
    storage,     \* the raw storage read() reads; never written
    loc,         \* the local variables of the running read()
    pc,          \* position inside read(): "start", ..., "done", "error"
    rec,         \* what read() returned (or the exception it raised)
    prev,        \* the record returned by the previous invocation of read()
    invocation   \* 1 for the first invocation of read(), 2 for the second

vars == <<self, storage, loc, pc, rec, prev, invocation>>

---------------------------------------------------------------------------
(* Bounds of the model.                                                    *)

MaxImages == 3      \* most samples in a Cub / Pascal3D storage
MaxFaces == 3       \* most lines of identity_CelebA.txt
MaxW == 3           \* width of a Cub image, in pixels
MaxH == 4           \* height of a Cub image, in pixels
MaxNImages == 3     \* largest --n-images asked of CelebA
MaxFiles == 2       \* most files in one AFHQ class directory

---------------------------------------------------------------------------
(* Arrays (0-based) and the Python / numpy primitives the readers use.     *)

ALen(a) == Cardinality(DOMAIN a)

Arr(s) == [j \in 0..(Len(s) - 1) |-> s[j + 1]]

EmptyArr == Arr(<<>>)

AAppend(a, x) == [j \in 0..ALen(a) |-> IF j < ALen(a) THEN a[j] ELSE x]

ARange(a) == {a[j] : j \in DOMAIN a}

\* All arrays of length n over S.
Arrays(S, n) == [0..(n - 1) -> S]

\* list.index(x): the position of the first occurrence of x.
ListIndex(list, x) ==
    CHOOSE j \in DOMAIN list : list[j] = x /\ \A k \in DOMAIN list : k < j => list[k] # x

\* list(set(xs)): the elements of xs, each once, in the iteration order of
\* the set.  For str elements that order depends on the interpreter's hash
\* seed, so every enumeration is a possible outcome.
ListOfSet(xs) ==
    {l \in Arrays(ARange(xs), Cardinality(ARange(xs))) : ARange(l) = ARange(xs)}

\* a[mask] for a boolean mask: the elements whose mask entry is TRUE, in order.
RECURSIVE MaskPrefix(_, _, _)
MaskPrefix(a, mask, n) ==
    IF n = 0 THEN EmptyArr
    ELSE IF mask[n - 1] THEN AAppend(MaskPrefix(a, mask, n - 1), a[n - 1])
         ELSE MaskPrefix(a, mask, n - 1)

BoolIndex(a, mask) == MaskPrefix(a, mask, ALen(a))

\* a[idx] for an integer index array: element j is a[idx[j]].
TakeIdx(a, idx) == [j \in DOMAIN idx |-> a[idx[j]]]

\* The length of the slice lo:hi of an axis of length dim (0 <= lo, 0 <= hi).
SliceLen(lo, hi, dim) ==
    LET stop == IF hi < dim THEN hi ELSE dim
    IN IF stop > lo THEN stop - lo ELSE 0

Max(a, b) == IF a >= b THEN a ELSE b

NoRecord == [none |-> TRUE]

Raise(kind) == [error |-> kind]

NoLocals == [i |-> 0]

\* The state every read() starts from.
Fresh ==
    /\ loc = NoLocals
    /\ pc = "start"
    /\ rec = NoRecord
    /\ prev = NoRecord
    /\ invocation = 1

Fail(kind) ==
    /\ pc' = "error"
    /\ rec' = Raise(kind)
    /\ UNCHANGED <<self, storage, loc, prev, invocation>>

Return(record) ==
    /\ pc' = "done"
    /\ rec' = record
    /\ UNCHANGED <<self, storage, loc, prev, invocation>>

---------------------------------------------------------------------------
(* Cars3D                                                                  *)

NElevations == 4
NAzimuths == 24
NObjects == 183

Cars3DTotal == NElevations * NAzimuths * NObjects

\* What np.empty may hold: whatever was in the memory it was given.
Garbage == {-1, 0}

\* The largest of the truncated archives that are tried.
MaxShort == 60

\* cars3d.npz: the 'imgs' array, one entry per rendered view.  The archive
\* of the data set holds 4 * 24 * 183 views; archives of one view more, of
\* one view less, and truncated ones of up to MaxShort views are the others.
Cars3DStorages ==
    {[imgs |-> [shape0 |-> n]] :
        n \in (0..MaxShort) \cup {Cars3DTotal - 1, Cars3DTotal, Cars3DTotal + 1}}

\* The index with the elevation counted in single views, not in blocks of
\* 24 * 183 views.
ImgIdxNoStride(elevation, azimuth, object_id) ==
    elevation * NAzimuths + azimuth * NObjects + object_id

\* Line 42: img_idx.
ImgIdx(elevation, azimuth, object_id) ==
    elevation * NAzimuths * NObjects + azimuth * NObjects + object_id

\* np.empty(shape=(imgs.shape[0], )) twice.  The entries hold no value of the
\* program until they are assigned: writes[j] counts the assignments made to
\* index j, and an entry never assigned is given its leftover value when the
\* array is handed out (Cars3DReturn).
Cars3DEmpty(shape0) ==
    [classes |-> [j \in 0..(shape0 - 1) |-> 0],
     contents |-> [j \in 0..(shape0 - 1) |-> 0],
     writes |-> [j \in 0..(shape0 - 1) |-> 0],
     raised |-> "none"]

\* The body of the innermost loop (lines 42-45).  An index outside the
\* arrays raises IndexError at the first of the two assignments.
Cars3DBody(l, elevation, azimuth, object_id) ==
    IF ImgIdx(elevation, azimuth, object_id) \notin DOMAIN l.classes
    THEN [l EXCEPT !.raised = "IndexError"]
    ELSE [l EXCEPT !.classes[ImgIdx(elevation, azimuth, object_id)] = object_id,
                   !.contents[ImgIdx(elevation, azimuth, object_id)] =
                       elevation * NAzimuths + azimuth,
                   !.writes[ImgIdx(elevation, azimuth, object_id)] = @ + 1]

\* The passes object_id = lo, ..., hi - 1 of 'for object_id in range(183)',
\* in that order (the first half of them, then the second half); the loop
\* ends where a pass raises.
RECURSIVE ObjectRange(_, _, _, _, _)
ObjectRange(l, elevation, azimuth, lo, hi) ==
    IF hi = lo \/ l.raised # "none" THEN l
    ELSE IF hi = lo + 1 THEN Cars3DBody(l, elevation, azimuth, lo)
    ELSE ObjectRange(ObjectRange(l, elevation, azimuth, lo, (lo + hi) \div 2),
                     elevation, azimuth, (lo + hi) \div 2, hi)

ObjectLoop(l, elevation, azimuth) == ObjectRange(l, elevation, azimuth, 0, NObjects)

\* 'for azimuth in range(24)', from pass azimuth on.
RECURSIVE AzimuthLoop(_, _, _)
AzimuthLoop(l, elevation, azimuth) ==
    IF azimuth = NAzimuths \/ l.raised # "none" THEN l
    ELSE AzimuthLoop(ObjectLoop(l, elevation, azimuth), elevation, azimuth + 1)

\* 'for elevation in range(4)', from pass elevation on.
RECURSIVE ElevationLoop(_, _)
ElevationLoop(l, elevation) ==
    IF elevation = NElevations \/ l.raised # "none" THEN l
    ELSE ElevationLoop(AzimuthLoop(l, elevation, 0), elevation + 1)

\* Lines 35-45: the archive is loaded, the two arrays are allocated and the
\* triple loop runs to its end, or to the pass that raises.
Cars3DLoops ==
    /\ self.dataset = "cars3d"
    /\ pc = "start"
    /\ \E l \in {ElevationLoop(Cars3DEmpty(storage.imgs.shape0), 0)} :
         IF l.raised # "none"
         THEN Fail(l.raised)
         ELSE /\ loc' = l
              /\ pc' = "loop"
              /\ UNCHANGED <<self, storage, rec, prev, invocation>>

\* The memory np.empty was given, as one of the patterns that are tried: one
\* leftover value at the even indices and one at the odd indices.
LeftoverPatterns == {[even |-> g0, odd |-> g1] : g0 \in Garbage, g1 \in Garbage}

\* The array a with each entry that was never assigned holding what the
\* memory held there.
Leftover(a, writes, left) ==
    [j \in DOMAIN a |->
        IF writes[j] # 0 THEN a[j]
        ELSE IF j % 2 = 0 THEN left.even ELSE left.odd]

\* Lines 47-51.  An archive in which every entry was assigned has one return.
Cars3DReturn ==
    /\ self.dataset = "cars3d"
    /\ pc = "loop"
    /\ \E lc \in LeftoverPatterns, lk \in LeftoverPatterns :
         Return([img |-> [j \in 0..(storage.imgs.shape0 - 1) |-> j],
                 class |-> Leftover(loc.classes, loc.writes, lc),
                 content |-> Leftover(loc.contents, loc.writes, lk)])

\* read() is invoked a second time on the same storage with the same
\* options, in the same or in another run of the program.  (Not followed for
\* Cars3D, whose second run repeats the first pass for pass, nor for a
\* CelebA run that draws a random subsample.)
ReadAgain ==
    /\ pc = "done"
    /\ invocation = 1
    /\ self.dataset # "cars3d"
    /\ self.dataset = "celeba" => self.n_images = 0
    /\ invocation' = 2
    /\ prev' = rec
    /\ rec' = NoRecord
    /\ loc' = NoLocals
    /\ pc' = "start"
    /\ UNCHANGED <<self, storage>>

---------------------------------------------------------------------------
(* Images.  An image is known by the file it was decoded from, the region  *)
(* of it that was kept and the shape it was resized to.                    *)

\* imageio.imread(path): the decoded file.
ImRead(path) == [src |-> path]

\* cv2.resize(img[y1:y2, x1:x2], dsize): rows and cols are the numbers of
\* rows and columns the slice selects.
Resized(img, crop, dsize) == [src |-> img.src, crop |-> crop, shape |-> dsize]

---------------------------------------------------------------------------
(* Exact fractions, for the float arithmetic on keypoints.                 *)

Frac(n) == [num |-> n, den |-> 1]

FSubInt(f, k) == [num |-> f.num - k * f.den, den |-> f.den]

\* f * (a / b), b > 0
FMulRatio(f, a, b) == [num |-> f.num * a, den |-> f.den * b]

\* 2.0 * (f / k) - 1, k > 0
FToUnit(f, k) == [num |-> 2 * f.num - f.den * k, den |-> f.den * k]

---------------------------------------------------------------------------
(* Cub                                                                     *)

DefaultImgSize == 256

CubCategories == {"001.a", "002.b", "003.c"}

\* Bounding boxes as the .mat file gives them: 1-based, inclusive.
CubBoxes ==
    {[x1 |-> x1, x2 |-> x2, y1 |-> y1, y2 |-> y2] :
        x1 \in 1..MaxW, x2 \in 1..MaxW, y1 \in 1..MaxH, y2 \in 1..MaxH}

\* One row of parts.T: x, y (1-based pixel position) and the visibility flag.
PartRow(x, y, v) == Arr(<<x, y, v>>)

CubStruct(category, bbox, parts) ==
    [rel_path |-> <<category, "img.jpg">>,
     shape |-> [h |-> MaxH, w |-> MaxW],
     bbox |-> bbox,
     parts |-> parts]

PlainStruct(category) ==
    CubStruct(category, [x1 |-> 1, x2 |-> 2, y1 |-> 1, y2 |-> 2],
              Arr(<<PartRow(2, 1, 1), PartRow(0, 0, 0)>>))

\* Storages of two images whose first varies over every box with x1 < x2 and
\* y1 < y2 and every position and visibility of its keypoint; storages of no
\* image and of 2..MaxImages plain images over every assignment of
\* categories; and one whose first box is a single pixel.
CubStorages ==
    {[images |-> Arr(<<CubStruct("001.a", b, Arr(<<PartRow(x, y, v)>>)), PlainStruct("002.b")>>)] :
        b \in {c \in CubBoxes : c.x1 < c.x2 /\ c.y1 < c.y2},
        x \in 1..MaxW, y \in 1..MaxH, v \in {0, 1}}
    \cup
    UNION {{[images |-> [j \in 0..(n - 1) |-> PlainStruct(cats[j])]] :
                cats \in Arrays(CubCategories, n)} : n \in {0} \cup 2..MaxImages}
    \cup
    {[images |-> Arr(<<CubStruct("001.a", [x1 |-> 1, x2 |-> 1, y1 |-> 1, y2 |-> 1],
                                 Arr(<<PartRow(1, 1, 1)>>)),
                       PlainStruct("002.b")>>)]}

\* Lines 84-97: the square region cut around the bounding box.
SquareCrop(raw_bbox) ==
    LET bbox == [x1 |-> raw_bbox.x1 - 1, x2 |-> raw_bbox.x2 - 1,
                 y1 |-> raw_bbox.y1 - 1, y2 |-> raw_bbox.y2 - 1]
        height == bbox.y2 - bbox.y1 + 1
        width == bbox.x2 - bbox.x1 + 1
        box_length == Max(width, height)
        y1 == Max(bbox.y1 - (box_length - height) \div 2, 0)
        x1 == Max(bbox.x1 - (box_length - width) \div 2, 0)
    IN [box_length |-> box_length,
        y1 |-> y1, y2 |-> y1 + box_length - 1,
        x1 |-> x1, x2 |-> x1 + box_length - 1]

\* img_masked[y1:y2, x1:x2]: the numbers of rows and columns selected.
CropOf(sq, shape) ==
    [y1 |-> sq.y1, y2 |-> sq.y2, x1 |-> sq.x1, x2 |-> sq.x2,
     rows |-> SliceLen(sq.y1, sq.y2, shape.h),
     cols |-> SliceLen(sq.x1, sq.x2, shape.w)]

\* The remapping with the crop origin not subtracted.
RemapNoOrigin(v, origin, box_length, img_size) ==
    FToUnit(FMulRatio(FSubInt(Frac(v), 1), img_size, box_length), img_size)

\* Lines 109-115 for one coordinate v of a visible keypoint.
Remap(v, origin, box_length, img_size) ==
    FToUnit(FMulRatio(FSubInt(FSubInt(Frac(v), 1), origin), img_size, box_length), img_size)

\* Lines 107-117: one row of img_keypoints after the remapping.
KeypointRow(row, sq, img_size) ==
    IF row[2] > 0
    THEN Arr(<<Remap(row[0], sq.x1, sq.box_length, img_size),
               Remap(row[1], sq.y1, sq.box_length, img_size),
               Frac(row[2])>>)
    ELSE Arr(<<Frac(row[0]), Frac(row[1]), Frac(row[2])>>)

\* img_keypoints.reshape((-1, )): entry 3 * p + c is column c of row p.
Keypoints(parts, sq, img_size) ==
    [k \in 0..(3 * ALen(parts) - 1) |->
        KeypointRow(parts[k \div 3], sq, img_size)[k % 3]]

\* The ids counted from 1.
DenseIdsFromOne(unique, ids) == [j \in DOMAIN ids |-> ListIndex(unique, ids[j]) + 1]

\* list(map(lambda c: unique.index(c), ids))
DenseIds(unique, ids) == [j \in DOMAIN ids |-> ListIndex(unique, ids[j])]

CubStart ==
    /\ self.dataset = "cub"
    /\ pc = "start"
    /\ loc' = [i |-> 0, imgs |-> EmptyArr, keypoints |-> EmptyArr, categories |-> EmptyArr]
    /\ pc' = "loop"
    /\ UNCHANGED <<self, storage, rec, prev, invocation>>

\* One pass of 'for i in range(n_images)'.
CubStep ==
    /\ self.dataset = "cub"
    /\ pc = "loop"
    /\ loc.i < ALen(storage.images)
    /\ LET img_struct == storage.images[loc.i]
           sq == SquareCrop(img_struct.bbox)
           crop == CropOf(sq, img_struct.shape)
       IN IF crop.rows = 0 \/ crop.cols = 0
          THEN Fail("cv2.error")
          ELSE /\ loc' = [i |-> loc.i + 1,
                          imgs |-> AAppend(loc.imgs,
                                      Resized(ImRead(img_struct.rel_path), crop,
                                              <<self.img_size, self.img_size>>)),
                          keypoints |-> AAppend(loc.keypoints,
                                      Keypoints(img_struct.parts, sq, self.img_size)),
                          categories |-> AAppend(loc.categories, img_struct.rel_path[1])]
               /\ UNCHANGED <<self, storage, pc, rec, prev, invocation>>

\* Lines 122-129.
CubReturn ==
    /\ self.dataset = "cub"
    /\ pc = "loop"
    /\ loc.i = ALen(storage.images)
    /\ IF loc.imgs = EmptyArr
       THEN Fail("ValueError")
       ELSE \E unique_categories \in ListOfSet(loc.categories) :
               Return([img |-> loc.imgs,
                       class |-> DenseIds(unique_categories, loc.categories),
                       content |-> loc.keypoints])

InitCub ==
    /\ self = [dataset |-> "cub", img_size |-> DefaultImgSize]
    /\ storage \in CubStorages
    /\ Fresh

NextCub == CubStart \/ CubStep \/ CubReturn \/ ReadAgain

SpecCub == InitCub /\ [][NextCub]_vars

---------------------------------------------------------------------------
(* The CelebA files, read by CelebA and by Beards2Glasses.                 *)

NAttributes == 40

FaceIdentities == {"2880", "2937"}

FaceShape == [h |-> 218, w |-> 178]

DefaultCropSize == <<128, 128>>

DefaultTargetSize == <<128, 128>>

\* The name of image k in both annotation files.
ImgName(k) == [stem |-> k, ext |-> "jpg"]

\* os.path.join(imgs_dir, os.path.splitext(img_name)[0] + '.png')
ImgPath(img_name) == [dir |-> "img_align_celeba_png", stem |-> img_name.stem, ext |-> "png"]

\* os.path.splitext(os.path.basename(img_path))[0]
StemOf(img_path) == img_path.stem

\* A row of list_attr_celeba.txt: 40 values, each -1 or 1; on is the set of
\* indices whose value is 1.
RawAttributes(on) == [a \in 0..(NAttributes - 1) |-> IF a \in on THEN 1 ELSE -1]

AttrLine(k, on) == [name |-> ImgName(k), values |-> RawAttributes(on)]

HeaderLines == <<[header |-> "count"], [header |-> "names"]>>

\* list_attr_celeba.txt: two header lines, then the given rows.
AttrFile(rows) == Arr(HeaderLines \o rows)

\* identity_CelebA.txt: line k names image k and its identity.
IdentityFile(ids) == [k \in DOMAIN ids |-> <<ImgName(k), ids[k]>>]

\* Lines 176-188 / 268-282: the paths and identities, in file order.
ListImgs(identity_map) ==
    [img_paths |-> [j \in DOMAIN identity_map |-> ImgPath(identity_map[j][1])],
     identities |-> [j \in DOMAIN identity_map |-> identity_map[j][2]]]

\* img_attributes[img_attributes == -1] = 0
ZeroMinusOne(values) == [a \in DOMAIN values |-> IF values[a] = -1 THEN 0 ELSE values[a]]

\* Lines 197-209 / 284-296: the dict from image stem to attribute vector;
\* lines [2:] of the file, a later row of a stem replacing an earlier one.
ListAttributes(attribute_file) ==
    LET rows == {j \in DOMAIN attribute_file : j >= 2}
        stems == {attribute_file[j].name.stem : j \in rows}
        LastRow(st) == CHOOSE j \in rows :
                          /\ attribute_file[j].name.stem = st
                          /\ \A k \in rows : attribute_file[k].name.stem = st => k <= j
    IN [st \in stems |-> ZeroMinusOne(attribute_file[LastRow(st)].values)]

\* img[h//2 - c0//2 : h//2 + c0//2, w//2 - c1//2 : w//2 + c1//2]
CenterCrop(shape, crop_size) ==
    LET y1 == shape.h \div 2 - crop_size[1] \div 2
        y2 == shape.h \div 2 + crop_size[1] \div 2
        x1 == shape.w \div 2 - crop_size[2] \div 2
        x2 == shape.w \div 2 + crop_size[2] \div 2
    IN [y1 |-> y1, y2 |-> y2, x1 |-> x1, x2 |-> x2,
        rows |-> SliceLen(y1, y2, shape.h), cols |-> SliceLen(x1, x2, shape.w)]

\* Lines 226-233 / 330-337: read, crop about the centre, resize.
FaceImage(img_path, crop_size, target_size) ==
    Resized(ImRead(img_path), CenterCrop(FaceShape, crop_size), target_size)

---------------------------------------------------------------------------
(* CelebA                                                                  *)

NLandmarks == 68

\* Candidate c for image k, as face_alignment returns it: 68 rows (x, y) of
\* floats, here in tenths of a pixel.  Some coordinates are negative and most
\* have a fractional part.
Candidate(k, c) ==
    [p \in 0..(NLandmarks - 1) |->
        Arr(<<[num |-> 10 * (p + k) + 3 * c - 15, den |-> 10],
              [num |-> 10 * p + 7 * c, den |-> 10]>>)]

\* What fa.get_landmarks gives for an image: None, or a list of candidates.
PredsNone == [none |-> TRUE, list |-> EmptyArr]

PredsList(l) == [none |-> FALSE, list |-> l]

PredsOf(k, kind) ==
    CASE kind = 0 -> PredsNone
      [] kind = 1 -> PredsList(EmptyArr)
      [] kind = 2 -> PredsList(Arr(<<Candidate(k, 1)>>))
      [] OTHER -> PredsList(Arr(<<Candidate(k, 1), Candidate(k, 2)>>))

\* The attribute row of image k in the CelebA cases: which indices are 1
\* differs from image to image.
RowOf(k) == AttrLine(k, {a \in 0..(NAttributes - 1) : a % (k + 2) = 0})

AlternatingIds(n) == [k \in 0..(n - 1) |-> IF k % 2 = 0 THEN "2880" ELSE "2937"]

RECURSIVE SortedSeq(_)
SortedSeq(S) ==
    IF S = {} THEN <<>>
    ELSE LET m == CHOOSE x \in S : \A y \in S : x <= y
         IN <<m>> \o SortedSeq(S \ {m})

\* The rows of the images of have, in the order of their names.
RowsOf(have) == LET q == SortedSeq(have) IN [j \in DOMAIN q |-> RowOf(q[j])]

CelebAStorage(ids, have, kinds) ==
    [identity_map |-> IdentityFile(ids),
     attribute_map |-> AttrFile(RowsOf(have)),
     detect |-> [k \in DOMAIN ids |-> PredsOf(k, kinds[k])]]

\* The cases CelebA is run on: the option n_images (0: not given) and the
\* storage.  Without n_images, every pattern of detection outcomes over
\* 0..MaxFaces images, and every pattern of identities and of missing
\* attribute rows; with n_images, every size up to MaxNImages over storages
\* in which at most one image misses its attribute row.
CelebACases ==
    UNION {
        {[n_images |-> 0, storage |-> CelebAStorage(AlternatingIds(n), 0..(n - 1), kinds)] :
            kinds \in Arrays(0..3, n)}
        \cup
        {[n_images |-> 0, storage |-> CelebAStorage(ids, have, [k \in 0..(n - 1) |-> 2])] :
            ids \in Arrays(FaceIdentities, n), have \in SUBSET (0..(n - 1))}
        \cup
        {[n_images |-> m,
          storage |-> CelebAStorage(AlternatingIds(n), 0..(n - 1) \ miss, [k \in 0..(n - 1) |-> 2])] :
            m \in 1..MaxNImages,
            miss \in {{}} \cup {{k} : k \in 0..(n - 1)}}
        : n \in 0..MaxFaces}

\* A draw that gives at most a indices.
RandomChoiceCapped(a, size) == Arrays(0..(a - 1), IF size < a THEN size ELSE a)

\* np.random.choice(a, size=size): size indices below a, drawn with
\* replacement.  (a = 0 raises; the caller checks.)
RandomChoice(a, size) == Arrays(0..(a - 1), size)

\* preds[0].flatten(): entry 2 * p + c is coordinate c of landmark p.
Flatten(cand) == [q \in 0..(2 * ALen(cand) - 1) |-> cand[q \div 2][q % 2]]

\* astype(np.int16) of one float: the fraction is cut off, the result kept
\* in 16 bits.
Int16(f) ==
    LET t == IF f.num >= 0 THEN f.num \div f.den ELSE -((-f.num) \div f.den)
    IN ((t + 32768) % 65536) - 32768

AsInt16(v) == [q \in DOMAIN v |-> Int16(v[q])]

ZeroLandmarks == [q \in 0..(NLandmarks * 2 - 1) |-> 0]

\* The landmark row taken from the last candidate instead of the first.
LandmarksOfLast(preds) ==
    IF preds.none \/ ALen(preds.list) = 0 THEN ZeroLandmarks
    ELSE AsInt16(Flatten(preds.list[ALen(preds.list) - 1]))

\* Lines 237-241: the landmark row of a sample whose detection gave preds.
LandmarksOf(preds) ==
    IF preds.none \/ ALen(preds.list) = 0 THEN ZeroLandmarks
    ELSE AsInt16(Flatten(preds.list[0]))

\* An entry of an np.empty array that has not been assigned.
Unset == [unset |-> TRUE]

\* Line 212: __list_imgs, with the random subsample when n_images is given.
CelebAListImgs ==
    /\ self.dataset = "celeba"
    /\ pc = "start"
    /\ LET all == ListImgs(storage.identity_map)
       IN IF self.n_images # 0
          THEN IF ALen(all.img_paths) = 0
               THEN Fail("ValueError")
               ELSE /\ \E idx \in RandomChoice(ALen(all.img_paths), self.n_images) :
                         loc' = [img_paths |-> TakeIdx(all.img_paths, idx),
                                 identity_ids |-> TakeIdx(all.identities, idx)]
                    /\ pc' = "listed"
                    /\ UNCHANGED <<self, storage, rec, prev, invocation>>
          ELSE /\ loc' = [img_paths |-> all.img_paths, identity_ids |-> all.identities]
               /\ pc' = "listed"
               /\ UNCHANGED <<self, storage, rec, prev, invocation>>

\* Lines 213-222.
CelebAPrepare ==
    /\ self.dataset = "celeba"
    /\ pc = "listed"
    /\ \E unique_identities \in ListOfSet(loc.identity_ids) :
         loc' = [img_paths |-> loc.img_paths,
                 identity_ids |-> loc.identity_ids,
                 attritbute_map |-> ListAttributes(storage.attribute_map),
                 unique_identities |-> unique_identities,
                 i |-> 0,
                 imgs |-> [j \in DOMAIN loc.img_paths |-> Unset],
                 identities |-> [j \in DOMAIN loc.img_paths |-> Unset],
                 attributes |-> [j \in DOMAIN loc.img_paths |-> Unset],
                 landmarks |-> [j \in DOMAIN loc.img_paths |-> ZeroLandmarks]]
    /\ pc' = "loop"
    /\ UNCHANGED <<self, storage, rec, prev, invocation>>

\* The loop body with a sample that has no attribute row passed over (its
\* attribute row is left as allocated) instead of raising KeyError.
CelebAStepSkip ==
    /\ self.dataset = "celeba"
    /\ pc = "loop"
    /\ loc.i < ALen(loc.img_paths)
    /\ LET i == loc.i
           img_name == StemOf(loc.img_paths[i])
           preds == storage.detect[img_name]
       IN /\ loc' = [loc EXCEPT
                    !.imgs[i] = FaceImage(loc.img_paths[i], self.crop_size, self.target_size),
                    !.identities[i] = ListIndex(loc.unique_identities, loc.identity_ids[i]),
                    !.attributes[i] = IF img_name \in DOMAIN loc.attritbute_map
                                      THEN loc.attritbute_map[img_name] ELSE @,
                    !.landmarks[i] = LandmarksOf(preds),
                    !.i = i + 1]
          /\ UNCHANGED <<self, storage, pc, rec, prev, invocation>>

\* One pass of 'for i in tqdm(range(len(img_paths)))', lines 225-241.
CelebAStep ==
    /\ self.dataset = "celeba"
    /\ pc = "loop"
    /\ loc.i < ALen(loc.img_paths)
    /\ LET i == loc.i
           img_name == StemOf(loc.img_paths[i])
           preds == storage.detect[img_name]
       IN IF img_name \notin DOMAIN loc.attritbute_map
          THEN Fail("KeyError")
          ELSE /\ loc' = [loc EXCEPT
                    !.imgs[i] = FaceImage(loc.img_paths[i], self.crop_size, self.target_size),
                    !.identities[i] = ListIndex(loc.unique_identities, loc.identity_ids[i]),
                    !.attributes[i] = loc.attritbute_map[img_name],
                    !.landmarks[i] = LandmarksOf(preds),
                    !.i = i + 1]
               /\ UNCHANGED <<self, storage, pc, rec, prev, invocation>>

\* Lines 243-248.
CelebAReturn ==
    /\ self.dataset = "celeba"
    /\ pc = "loop"
    /\ loc.i = ALen(loc.img_paths)
    /\ Return([img |-> loc.imgs, class |-> loc.identities,
               attributes |-> loc.attributes, landmarks |-> loc.landmarks])

InitCelebA ==
    /\ \E c \in CelebACases :
         /\ self = [dataset |-> "celeba", crop_size |-> DefaultCropSize,
                    target_size |-> DefaultTargetSize, n_images |-> c.n_images]
         /\ storage = c.storage
    /\ Fresh

NextCelebA == CelebAListImgs \/ CelebAPrepare \/ CelebAStep \/ CelebAReturn \/ ReadAgain

SpecCelebA == InitCelebA /\ [][NextCelebA]_vars

---------------------------------------------------------------------------
(* Beards2Glasses                                                          *)

\* The attribute indices the three rules read.
RuleIndices == {0, 15, 16, 20, 22, 24}

\* Rows that make a bearded sample (by index 22, and by index 16 alone), a
\* sample with glasses and no beard, and a sample no rule matches.
PlainRows == {{20, 22, 24}, {16, 20, 24}, {15, 20, 24}, {}}

\* Stands for an image that has no row in list_attr_celeba.txt.
NoRow == {-1}

\* Storages of one image over every setting of the indices the rules read,
\* and storages of 0..MaxFaces images, each with one of the plain rows or
\* with no attribute row at all.
B2GStorages ==
    {[identity_map |-> IdentityFile(AlternatingIds(1)),
      attribute_map |-> AttrFile(<<AttrLine(0, on)>>)] : on \in SUBSET RuleIndices}
    \cup
    UNION {{[identity_map |-> IdentityFile(AlternatingIds(n)),
             attribute_map |->
                AttrFile(LET q == SortedSeq({k \in 0..(n - 1) : row[k] # NoRow})
                         IN [j \in DOMAIN q |-> AttrLine(q[j], row[q[j]])])] :
                row \in Arrays(PlainRows \cup {NoRow}, n)} : n \in 0..MaxFaces}

male_no_5_oclock(attributes) == attributes[20] = 1 /\ attributes[0] = 0

\* A beard read from index 22 alone.
beard_mustache_only(attributes) == attributes[22] = 1

beard(attributes) == attributes[22] = 1 \/ attributes[16] = 1 \/ attributes[24] = 0

glasses(attributes) == attributes[15] = 1

\* Lines 319-323; -1 is the fill value of line 314, left in place when
\* neither rule matches.
ClassOf(img_attributes) ==
    IF male_no_5_oclock(img_attributes) /\ beard(img_attributes) /\ ~glasses(img_attributes)
    THEN 0
    ELSE IF male_no_5_oclock(img_attributes) /\ ~beard(img_attributes) /\ glasses(img_attributes)
         THEN 1
         ELSE -1

\* Lines 311-314.
B2GStart ==
    /\ self.dataset = "beard2glasses"
    /\ pc = "start"
    /\ LET all == ListImgs(storage.identity_map)
       IN loc' = [img_paths |-> all.img_paths,
                  identities |-> all.identities,
                  attritbute_map |-> ListAttributes(storage.attribute_map),
                  classes |-> [j \in DOMAIN all.img_paths |-> -1],
                  i |-> 0]
    /\ pc' = "classify"
    /\ UNCHANGED <<self, storage, rec, prev, invocation>>

\* One pass of 'for i, img_path in enumerate(img_paths)', lines 316-323.
B2GClassify ==
    /\ self.dataset = "beard2glasses"
    /\ pc = "classify"
    /\ loc.i < ALen(loc.img_paths)
    /\ LET img_name == StemOf(loc.img_paths[loc.i])
       IN IF img_name \notin DOMAIN loc.attritbute_map
          THEN Fail("KeyError")
          ELSE /\ loc' = [loc EXCEPT
                    !.classes[loc.i] = ClassOf(loc.attritbute_map[img_name]),
                    !.i = @ + 1]
               /\ UNCHANGED <<self, storage, pc, rec, prev, invocation>>

\* Lines 325-328: the samples whose class is not -1, and the empty images.
B2GFilter ==
    /\ self.dataset = "beard2glasses"
    /\ pc = "classify"
    /\ loc.i = ALen(loc.img_paths)
    /\ LET mask == [j \in DOMAIN loc.classes |-> loc.classes[j] # -1]
           img_paths_of_attributes == BoolIndex(loc.img_paths, mask)
       IN loc' = [img_paths |-> loc.img_paths,
                  img_paths_of_attributes |-> img_paths_of_attributes,
                  classes |-> BoolIndex(loc.classes, mask),
                  imgs |-> [j \in DOMAIN img_paths_of_attributes |-> Unset],
                  i |-> 0]
    /\ pc' = "load"
    /\ UNCHANGED <<self, storage, rec, prev, invocation>>

\* One pass of 'for i in tqdm(range(len(img_paths_of_attributes)))'.
B2GLoad ==
    /\ self.dataset = "beard2glasses"
    /\ pc = "load"
    /\ loc.i < ALen(loc.img_paths_of_attributes)
    /\ loc' = [loc EXCEPT
          !.imgs[loc.i] = FaceImage(loc.img_paths_of_attributes[loc.i],
                                    self.crop_size, self.target_size),
          !.i = @ + 1]
    /\ UNCHANGED <<self, storage, pc, rec, prev, invocation>>

\* Lines 339-342.
B2GReturn ==
    /\ self.dataset = "beard2glasses"
    /\ pc = "load"
    /\ loc.i = ALen(loc.img_paths_of_attributes)
    /\ Return([img |-> loc.imgs, class |-> loc.classes])

InitB2G ==
    /\ self = [dataset |-> "beard2glasses", crop_size |-> DefaultCropSize,
               target_size |-> DefaultTargetSize]
    /\ storage \in B2GStorages
    /\ Fresh

NextB2G == B2GStart \/ B2GClassify \/ B2GFilter \/ B2GLoad \/ B2GReturn \/ ReadAgain

SpecB2G == InitB2G /\ [][NextB2G]_vars

---------------------------------------------------------------------------
(* Pascal3D                                                                *)

DefaultPascalImgSize == 128

\* What the Pascal reader gives for the category (images_ref, one entry per
\* image) and the 'classes' array of the archive at --classes-path.
Pascal3DStorages ==
    UNION {{[images_ref |-> [j \in 0..(n - 1) |-> [src |-> <<"car", j>>]],
             classes |-> classes] :
                classes \in UNION {Arrays(0..1, m) : m \in 0..MaxImages}}
           : n \in 0..MaxImages}

\* Lines 146-156.  np.stack of no image raises.
Pascal3DRead ==
    /\ self.dataset = "pascal3d"
    /\ pc = "start"
    /\ IF ALen(storage.images_ref) = 0
       THEN Fail("ValueError")
       ELSE Return([img |-> [j \in DOMAIN storage.images_ref |->
                                [src |-> storage.images_ref[j].src,
                                 shape |-> <<self.img_size, self.img_size>>]],
                    class |-> storage.classes])

InitPascal3D ==
    /\ self = [dataset |-> "pascal3d", img_size |-> DefaultPascalImgSize]
    /\ storage \in Pascal3DStorages
    /\ Fresh

---------------------------------------------------------------------------
(* AFHQ                                                                    *)

DefaultAFHQImgSize == 128

AFHQClassDirs == {"cat", "dog"}

\* A split directory: listing is os.listdir of it (the class directories, in
\* the order the file system gives them) and files[c] is os.listdir of class
\* directory c.
AFHQStorages ==
    UNION {UNION {{[listing |-> listing,
                    files |-> [c \in dirs |-> [f \in 0..(count[c] - 1) |-> <<c, f>>]]] :
                        listing \in {l \in Arrays(dirs, Cardinality(dirs)) : ARange(l) = dirs}}
                  : count \in [dirs -> 0..MaxFiles]}
           : dirs \in SUBSET AFHQClassDirs}

RECURSIVE ConcatPrefix(_, _)
ConcatPrefix(arrays, n) ==
    IF n = 0 THEN EmptyArr
    ELSE LET head == ConcatPrefix(arrays, n - 1)
             last == arrays[n - 1]
         IN [j \in 0..(ALen(head) + ALen(last) - 1) |->
                IF j < ALen(head) THEN head[j] ELSE last[j - ALen(head)]]

\* np.concatenate(arrays, axis=0)
Concatenate(arrays) == ConcatPrefix(arrays, ALen(arrays))

\* Line 358.
AFHQStart ==
    /\ self.dataset = "afhq"
    /\ pc = "start"
    /\ loc' = [class_ids |-> storage.listing, i |-> 0, imgs |-> EmptyArr, classes |-> EmptyArr]
    /\ pc' = "loop"
    /\ UNCHANGED <<self, storage, rec, prev, invocation>>

\* One pass of 'for i, class_id in enumerate(class_ids)'.  np.stack of an
\* empty class directory raises.
AFHQStep ==
    /\ self.dataset = "afhq"
    /\ pc = "loop"
    /\ loc.i < ALen(loc.class_ids)
    /\ LET class_paths == storage.files[loc.class_ids[loc.i]]
       IN IF ALen(class_paths) = 0
          THEN Fail("ValueError")
          ELSE /\ loc' = [loc EXCEPT
                    !.imgs = AAppend(@, [f \in DOMAIN class_paths |->
                                [src |-> class_paths[f],
                                 shape |-> <<self.img_size, self.img_size>>]]),
                    !.classes = AAppend(@, [f \in DOMAIN class_paths |-> loc.i]),
                    !.i = @ + 1]
               /\ UNCHANGED <<self, storage, pc, rec, prev, invocation>>

\* Lines 369-372.  np.concatenate of no array raises.
AFHQReturn ==
    /\ self.dataset = "afhq"
    /\ pc = "loop"
    /\ loc.i = ALen(loc.class_ids)
    /\ IF ALen(loc.imgs) = 0
       THEN Fail("ValueError")
       ELSE Return([img |-> Concatenate(loc.imgs), class |-> Concatenate(loc.classes)])

InitAFHQ ==
    /\ self = [dataset |-> "afhq", img_size |-> DefaultAFHQImgSize]
    /\ storage \in AFHQStorages
    /\ Fresh

---------------------------------------------------------------------------
(* Specifications.                                                         *)

InitCars3D ==
    /\ self = [dataset |-> "cars3d"]
    /\ storage \in Cars3DStorages
    /\ Fresh

NextCars3D == Cars3DLoops \/ Cars3DReturn

SpecCars3D == InitCars3D /\ [][NextCars3D]_vars

\* CelebA and Beards2Glasses: the two readers of the CelebA files.
InitFaces == InitCelebA \/ InitB2G

NextFaces ==
    \/ CelebAListImgs \/ CelebAPrepare \/ CelebAStep \/ CelebAReturn
    \/ B2GStart \/ B2GClassify \/ B2GFilter \/ B2GLoad \/ B2GReturn
    \/ ReadAgain

SpecFaces == InitFaces /\ [][NextFaces]_vars

\* The readers that derive class ids themselves.
InitDense == InitCub \/ InitCelebA \/ InitB2G

NextDense ==
    \/ CubStart \/ CubStep \/ CubReturn
    \/ CelebAListImgs \/ CelebAPrepare \/ CelebAStep \/ CelebAReturn
    \/ B2GStart \/ B2GClassify \/ B2GFilter \/ B2GLoad \/ B2GReturn
    \/ ReadAgain

SpecDense == InitDense /\ [][NextDense]_vars

\* supported_datasets: every reader.
Init == InitCars3D \/ InitCub \/ InitPascal3D \/ InitCelebA \/ InitB2G \/ InitAFHQ

Next ==
    \/ Cars3DLoops \/ Cars3DReturn
    \/ CubStart \/ CubStep \/ CubReturn
    \/ Pascal3DRead
    \/ CelebAListImgs \/ CelebAPrepare \/ CelebAStep \/ CelebAReturn
    \/ B2GStart \/ B2GClassify \/ B2GFilter \/ B2GLoad \/ B2GReturn
    \/ AFHQStart \/ AFHQStep \/ AFHQReturn
    \/ ReadAgain

Spec == Init /\ [][Next]_vars

---------------------------------------------------------------------------
(* Properties.  Each is stated from the raw storage and the returned       *)
(* record, with its own reading of the storage.                            *)

Returned == pc = "done"

\* The stems of the images that have a row in list_attr_celeba.txt.
RowStems == {storage.attribute_map[j].name.stem : j \in {r \in DOMAIN storage.attribute_map : r >= 2}}

\* The 0/1 attribute vector of the image with stem st.
BinaryRow(st) ==
    LET j == CHOOSE r \in DOMAIN storage.attribute_map :
                r >= 2 /\ storage.attribute_map[r].name.stem = st
    IN [a \in 0..39 |-> IF storage.attribute_map[j].values[a] = 1 THEN 1 ELSE 0]

SameLengths(r) == \A k \in DOMAIN r : ALen(r[k]) = ALen(r.img)

\* C1: every record a reader returns has all its sequences (img, class and,
\* where present, content, attributes, landmarks) of one length.
C1_SameLengths == Returned => SameLengths(rec)

\* C2: Cars3D: for every e in [0,4), a in [0,24), o in [0,183) the sample at
\* index e*24*183 + a*183 + o has class o and content e*24 + a, and that index
\* was assigned exactly once; every index below 4*24*183 is such an index.
C2_Cars3DEnumeration ==
    (self.dataset = "cars3d" /\ Returned) =>
        /\ \A e \in 0..3 : \A a \in 0..23 : \A o \in 0..182 :
              LET idx == e * 24 * 183 + a * 183 + o
              IN /\ idx \in DOMAIN rec.class
                 /\ rec.class[idx] = o
                 /\ rec.content[idx] = e * 24 + a
                 /\ loc.writes[idx] = 1
        /\ \A j \in 0..(4 * 24 * 183 - 1) :
              j = (j \div (24 * 183)) * 24 * 183 + ((j \div 183) % 24) * 183 + (j % 183)

\* C2 witness: read() returned on the archive of exactly 4*24*183 views.
C2_Witness ==
    /\ self.dataset = "cars3d"
    /\ Returned
    /\ ALen(rec.class) = 4 * 24 * 183
    /\ rec.class[4 * 24 * 183 - 1] = 182

C3_Rule0Stated(v) == v[20] = 1 /\ v[0] = 0 /\ v[22] = 1 /\ v[15] = 0

C3_Rule0(v) == v[20] = 1 /\ v[0] = 0 /\ v[15] = 0 /\ (v[22] = 1 \/ v[16] = 1 \/ v[24] = 0)

C3_Rule1(v) == v[20] = 1 /\ v[0] = 0 /\ v[15] = 1 /\ v[22] = 0 /\ v[16] = 0 /\ v[24] = 1

\* The images 0..n-1 that satisfy Match, in file order.
RECURSIVE C3_Matching(_, _)
C3_Matching(Match(_), n) ==
    IF n = 0 THEN <<>>
    ELSE IF Match(BinaryRow(n - 1)) THEN Append(C3_Matching(Match, n - 1), n - 1)
         ELSE C3_Matching(Match, n - 1)

\* The record holds exactly the images matching Rule0 or Rule1, in file
\* order, with class 0 for Rule0 and class 1 for Rule1; no vector matches both.
C3_RecordIs(Rule0(_), Rule1(_)) ==
    LET Either(v) == Rule0(v) \/ Rule1(v)
        kept == C3_Matching(Either, ALen(storage.identity_map))
    IN /\ ALen(rec.class) = Len(kept)
       /\ ALen(rec.img) = Len(kept)
       /\ \A j \in DOMAIN rec.class :
            /\ rec.img[j].src.stem = kept[j + 1]
            /\ Rule0(BinaryRow(kept[j + 1])) => rec.class[j] = 0
            /\ Rule1(BinaryRow(kept[j + 1])) => rec.class[j] = 1
       /\ \A k \in DOMAIN storage.identity_map :
            ~(Rule0(BinaryRow(k)) /\ Rule1(BinaryRow(k)))

\* C3 as stated: the class-0 rule is attr[20]==1, attr[0]==0, attr[22]==1,
\* attr[15]==0; the class-1 rule is attr[20]==1, attr[0]==0, attr[15]==1 and
\* no beard; a sample matching neither is absent, the others are present in
\* order.
C3_Original ==
    (self.dataset = "beard2glasses" /\ Returned) => C3_RecordIs(C3_Rule0Stated, C3_Rule1)

\* C3 amended: the same with the class-0 rule attr[20]==1, attr[0]==0,
\* attr[15]==0 and beard, where beard is attr[22]==1 or attr[16]==1 or
\* attr[24]==0 (attr[22]==1 is one way of three to have a beard).
C3_Rules ==
    (self.dataset = "beard2glasses" /\ Returned) => C3_RecordIs(C3_Rule0, C3_Rule1)

\* C3 witness: of three images the first and the last are kept, with
\* different classes, and the middle one is dropped.
C3_Witness ==
    /\ self.dataset = "beard2glasses"
    /\ Returned
    /\ ALen(storage.identity_map) = 3
    /\ ALen(rec.class) = 2
    /\ rec.img[0].src.stem = 0
    /\ rec.img[1].src.stem = 2
    /\ rec.class[0] = 1
    /\ rec.class[1] = 0

\* The boxes the claims on the square crop are about.
C4_ValidBox(b) == b.x1 < b.x2 /\ b.y1 < b.y2

\* C4: Cub: for every bounding box with x1 < x2 and y1 < y2 inside the image
\* the region cut before resizing is a square of side max(width, height) in
\* both axes, lying inside the image, and no error is raised.
C4_SquareCropSide ==
    self.dataset = "cub" =>
        /\ (pc = "error" /\ rec = Raise("cv2.error")) =>
              ~C4_ValidBox(storage.images[loc.i].bbox)
        /\ Returned =>
              \A i \in DOMAIN storage.images :
                 LET b == storage.images[i].bbox
                     side == Max(b.x2 - b.x1 + 1, b.y2 - b.y1 + 1)
                     c == rec.img[i].crop
                 IN C4_ValidBox(b) =>
                       /\ c.rows = side
                       /\ c.cols = side
                       /\ c.y1 >= 0
                       /\ c.x1 >= 0

C5_InUnit(f) == -f.den <= f.num /\ f.num <= f.den

\* C5: Cub: every keypoint flagged visible whose raw position lies inside
\* the bounding box has both remapped coordinates in [-1, 1]; a keypoint not
\* flagged visible keeps its raw values.
C5_KeypointsInUnit ==
    (self.dataset = "cub" /\ Returned) =>
        \A i \in DOMAIN storage.images :
           LET s == storage.images[i]
           IN \A p \in DOMAIN s.parts :
                 LET row == s.parts[p]
                     kx == rec.content[i][3 * p]
                     ky == rec.content[i][3 * p + 1]
                 IN /\ ( /\ row[2] > 0
                         /\ s.bbox.x1 <= row[0] /\ row[0] <= s.bbox.x2
                         /\ s.bbox.y1 <= row[1] /\ row[1] <= s.bbox.y2 )
                       => C5_InUnit(kx) /\ C5_InUnit(ky)
                    /\ row[2] <= 0
                       => /\ kx.num = row[0] * kx.den
                          /\ ky.num = row[1] * ky.den

\* C5 witness: a returned sample whose crop origin was clamped to 0 on the x
\* axis and whose visible keypoint lies inside the box.
C5_Witness ==
    /\ self.dataset = "cub"
    /\ Returned
    /\ \E i \in DOMAIN storage.images :
          LET s == storage.images[i]
              w == s.bbox.x2 - s.bbox.x1 + 1
              h == s.bbox.y2 - s.bbox.y1 + 1
          IN /\ C4_ValidBox(s.bbox)
             /\ (s.bbox.x1 - 1) - (Max(w, h) - w) \div 2 < 0
             /\ rec.img[i].crop.x1 = 0
             /\ \E p \in DOMAIN s.parts :
                   /\ s.parts[p][2] > 0
                   /\ s.bbox.x1 <= s.parts[p][0] /\ s.parts[p][0] <= s.bbox.x2
                   /\ s.bbox.y1 <= s.parts[p][1] /\ s.parts[p][1] <= s.bbox.y2
                   /\ rec.content[i][3 * p].num < 0

\* t is the float f with its fraction cut off.
C6_CutOff(t, f) ==
    IF f.num >= 0
    THEN t * f.den <= f.num /\ f.num < (t + 1) * f.den
    ELSE (t - 1) * f.den < f.num /\ f.num <= t * f.den

\* C6: CelebA: whatever the detection outcomes, the read returns all N
\* samples in order; a sample with no detection has all-zero landmarks, a
\* sample with detections has the landmarks of the first candidate (as
\* int16), and each sample's img, class attributes and landmarks are those of
\* its own image.  A read that fails never fails because of a detection.
C6_DetectionNeverFatal ==
    self.dataset = "celeba" =>
        /\ (pc = "error" =>
              \/ \E k \in DOMAIN storage.identity_map : k \notin RowStems
              \/ (self.n_images # 0 /\ ALen(storage.identity_map) = 0))
        /\ Returned =>
              /\ SameLengths(rec)
              /\ ALen(rec.img) = ALen(loc.img_paths)
              /\ self.n_images = 0 => ALen(rec.img) = ALen(storage.identity_map)
              /\ \A j \in DOMAIN rec.img :
                    LET st == loc.img_paths[j].stem
                        preds == storage.detect[st]
                    IN /\ rec.img[j].src.stem = st
                       /\ self.n_images = 0 => st = j
                       /\ rec.attributes[j] = BinaryRow(st)
                       /\ IF preds.none \/ preds.list = EmptyArr
                          THEN \A q \in 0..135 : rec.landmarks[j][q] = 0
                          ELSE \A p \in 0..67 : \A c \in 0..1 :
                                  C6_CutOff(rec.landmarks[j][2 * p + c], preds.list[0][p][c])

\* C6 witness: three samples returned; the first had no detection (None),
\* the second two candidates, the third an empty list of candidates.
C6_Witness ==
    /\ self.dataset = "celeba"
    /\ Returned
    /\ ALen(rec.img) = 3
    /\ storage.detect[0].none
    /\ ALen(storage.detect[1].list) = 2
    /\ ~storage.detect[2].none /\ ALen(storage.detect[2].list) = 0
    /\ rec.landmarks[1][3] = 1

\* The values of c are exactly 0..K-1, K the number of distinct values.
C7_Dense(c) == ARange(c) = 0..(Cardinality(ARange(c)) - 1)

\* C7 as stated: the class values of every record returned by Cub, CelebA
\* and Beards2Glasses occupy [0, K) with no gaps.
C7_Original == Returned => C7_Dense(rec.class)

\* C7 amended: the class values of a record returned by Cub or CelebA
\* occupy [0, K) with no gaps; those of Beards2Glasses are the rule ids, each
\* 0 or 1, not re-mapped.
C7_DenseClasses ==
    Returned =>
        IF self.dataset = "beard2glasses"
        THEN ARange(rec.class) \subseteq {0, 1}
        ELSE C7_Dense(rec.class)

\* C7 witness: a subsampled CelebA record of three samples with two classes,
\* the first sample of the second class.
C7_Witness ==
    /\ self.dataset = "celeba"
    /\ self.n_images = 3
    /\ Returned
    /\ ARange(rec.class) = {0, 1}
    /\ rec.class[0] = 1

\* C8: a second read() of the same storage with the same options (and no
\* random subsampling) returns the record the first returned.
C8_Idempotent == (Returned /\ invocation = 2) => rec = prev

\* C9 as stated: CelebA and Beards2Glasses return no record when any image
\* listed in the identity map has no entry in the attribute map.
C9_Original ==
    (self.dataset \in {"celeba", "beard2glasses"} /\ Returned) =>
        \A k \in DOMAIN storage.identity_map : storage.identity_map[k][1].stem \in RowStems

C9_Subsampled == self.dataset = "celeba" /\ self.n_images # 0

\* C9 amended: no record is returned when an image that read() looks up has
\* no entry in the attribute map: every listed image for Beards2Glasses and
\* for CelebA without n_images, the drawn images for CelebA with n_images.
\* A read that fails with KeyError stopped at an image without an entry, and
\* no returned sample carries a made-up attribute vector.
C9_MissingAnnotationFatal ==
    self.dataset \in {"celeba", "beard2glasses"} =>
        /\ (Returned /\ ~C9_Subsampled) =>
              \A k \in DOMAIN storage.identity_map :
                 storage.identity_map[k][1].stem \in RowStems
        /\ (Returned /\ self.dataset = "celeba") =>
              /\ ALen(rec.img) = ALen(loc.img_paths)
              /\ \A j \in DOMAIN rec.img :
                    /\ rec.img[j].src.stem \in RowStems
                    /\ rec.attributes[j] = BinaryRow(rec.img[j].src.stem)
        /\ (pc = "error" /\ rec = Raise("KeyError")) =>
              loc.img_paths[loc.i].stem \notin RowStems

\* C9 witness: CelebA fails with KeyError at its third sample, after two
\* samples were processed.
C9_Witness ==
    /\ self.dataset = "celeba"
    /\ pc = "error"
    /\ rec = Raise("KeyError")
    /\ loc.i = 2
    /\ loc.imgs[1] # Unset

\* C10: CelebA with n_images = n >= 1 reads exactly n samples, drawn with
\* replacement (n may exceed the number of lines, and the draw never fails
\* on a non-empty identity map), each path paired with the identity of its
\* own line; without n_images it reads every line in file order.
C10_Subsampling ==
    self.dataset = "celeba" =>
        /\ (pc = "error" /\ rec = Raise("ValueError")) => ALen(storage.identity_map) = 0
        /\ pc \in {"listed", "loop", "done"} =>
              /\ ALen(loc.img_paths) = ALen(loc.identity_ids)
              /\ ALen(loc.img_paths) =
                    IF self.n_images >= 1 THEN self.n_images ELSE ALen(storage.identity_map)
              /\ \A j \in DOMAIN loc.img_paths :
                    \E k \in DOMAIN storage.identity_map :
                       /\ loc.img_paths[j].stem = storage.identity_map[k][1].stem
                       /\ loc.identity_ids[j] = storage.identity_map[k][2]
                       /\ self.n_images = 0 => k = j
        /\ Returned =>
              /\ ALen(rec.img) = ALen(loc.img_paths)
              /\ \A j \in DOMAIN rec.img :
                    /\ rec.img[j].src.stem = loc.img_paths[j].stem
                    /\ \A k \in DOMAIN rec.img :
                          (rec.class[j] = rec.class[k]) <=>
                             (storage.identity_map[rec.img[j].src.stem][2]
                                = storage.identity_map[rec.img[k].src.stem][2])

\* C10 witness: three samples returned from an identity map of two lines.
C10_Witness ==
    /\ self.dataset = "celeba"
    /\ Returned
    /\ self.n_images = 3
    /\ ALen(storage.identity_map) = 2
    /\ ALen(rec.img) = 3
    /\ rec.img[0].src.stem = rec.img[2].src.stem

=============================================================================
